---- MODULE Spec2Model ----
(***************************************************************************)
(* QA_Log_Summarizer.py: locate the latest QA_Log_*.md file, split its     *)
(* text into five fixed sections, derive a date from the file name and     *)
(* print a condensed report.                                               *)
(*                                                                         *)
(* A Python str is modelled as a sequence of code points.  An ASCII code   *)
(* point is the one-character string holding it ("a", "\n"); any other     *)
(* code point is the string naming it ("U+2705").                          *)
(***************************************************************************)
EXTENDS Integers, Sequences, FiniteSets, TLC

VARIABLES pc, fs, today, files, log_file, content, sections, date, report, stdout

vars == <<pc, fs, today, files, log_file, content, sections, date, report, stdout>>

(* Python's None: a value that is no str (no sequence of code points). *)
None == <<"None">>

----------------------------------------------------------------------------
(* str primitives *)

NL == "\n"

(* the code points str.strip() with no argument strips (str.isspace), of   *)
(* which these are the ones the texts here can hold                        *)
Whitespace == {" ", "\t", "\n", "\r", "\f"}

(* s[i:].startswith(p), 1-based *)
StartsWithAt(s, i, p) ==
    /\ i >= 1
    /\ i + Len(p) - 1 <= Len(s)
    /\ SubSeq(s, i, i + Len(p) - 1) = p

StartsWith(s, p) == StartsWithAt(s, 1, p)

EndsWith(s, p) == Len(s) >= Len(p) /\ SubSeq(s, Len(s) - Len(p) + 1, Len(s)) = p

(* s.strip(chars): drop from both ends every code point of the set chars *)
StripChars(s, chars) ==
    LET keep == {i \in 1..Len(s) : s[i] \notin chars}
    IN  IF keep = {} THEN <<>>
        ELSE LET lo == CHOOSE i \in keep : \A j \in keep : i <= j
                 hi == CHOOSE i \in keep : \A j \in keep : j <= i
             IN  SubSeq(s, lo, hi)

(* s.strip() *)
Strip(s) == StripChars(s, Whitespace)

(* s.strip("- ") *)
StripBullet(s) == StripChars(s, {"-", " "})

(* s.split("\n"): always at least one piece *)
RECURSIVE Split(_)
Split(s) ==
    LET nls == {i \in 1..Len(s) : s[i] = NL}
    IN  IF nls = {} THEN <<s>>
        ELSE LET k == CHOOSE i \in nls : \A j \in nls : i <= j
             IN  <<SubSeq(s, 1, k - 1)>> \o Split(SubSeq(s, k + 1, Len(s)))

(* sep.join(parts) *)
RECURSIVE Join(_, _)
Join(sep, parts) ==
    IF parts = <<>> THEN <<>>
    ELSE IF Len(parts) = 1 THEN parts[1]
    ELSE parts[1] \o sep \o Join(sep, Tail(parts))

(* [line for line in lines if line.strip()] *)
RECURSIVE NonBlank(_)
NonBlank(lines) ==
    IF lines = <<>> THEN <<>>
    ELSE (IF Strip(Head(lines)) # <<>> THEN <<Head(lines)>> ELSE <<>>)
         \o NonBlank(Tail(lines))

(* the least index of a set of indices; 0 if there is none *)
Least(hits) ==
    IF hits = {} THEN 0 ELSE CHOOSE i \in hits : \A j \in hits : i <= j

----------------------------------------------------------------------------
(* parse_log: the five section labels, keys of the sections dict *)

TasksDone     == <<"U+2705", " ", "T", "a", "s", "k", "s", " ", "D", "o", "n", "e">>
BugsFound     == <<"U+1F41B", " ", "B", "u", "g", "s", " ", "F", "o", "u", "n", "d">>
FixesVerified == <<"U+1F6E0", " ", "F", "i", "x", "e", "s", " ", "V", "e", "r", "i", "f", "i", "e", "d">>
Observations  == <<"U+1F4C8", " ", "O", "b", "s", "e", "r", "v", "a", "t", "i", "o", "n", "s">>
NextSteps     == <<"U+1F501", " ", "N", "e", "x", "t", " ", "S", "t", "e", "p", "s">>

SECTION_NAMES == {TasksDone, BugsFound, FixesVerified, Observations, NextSteps}

(* the dict literal of parse_log: every key mapped to [] *)
EmptySections == [s \in SECTION_NAMES |-> <<>>]

(* f"No data provided for {section}" *)
NoData(section) ==
    <<"N", "o", " ", "d", "a", "t", "a", " ", "p", "r", "o", "v", "i", "d", "e", "d",
      " ", "f", "o", "r", " ">> \o section

(* the literal head of the pattern: rf"### {re.escape(section)}\n" *)
HeadingPattern(section) == <<"#", "#", "#", " ">> \o section \o <<NL>>

(* the lookahead (?=\n###|\Z) at index e (1-based; Len+1 is the end of text) *)
BlockEndsAt(text, e) ==
    \/ StartsWithAt(text, e, <<NL, "#", "#", "#">>)
    \/ e = Len(text) + 1

(* re.search(pattern, content, re.DOTALL): the leftmost place where the    *)
(* heading pattern occurs (anywhere in the text), then the shortest        *)
(* capture (.*?) that is followed by "\n###" or by the end of the text.    *)
(* Returns <<>> for no match, <<group(1)>> for a match.                    *)
SearchSection(text, section) ==
    LET pat == HeadingPattern(section)
        at  == Least({i \in 1..Len(text) : StartsWithAt(text, i, pat)})
    IN  IF at = 0 THEN <<>>
        ELSE LET from == at + Len(pat)
                 to   == Least({e \in from..(Len(text) + 1) : BlockEndsAt(text, e)})
             IN  <<SubSeq(text, from, to - 1)>>

(* [line.strip("- ").strip() for line in group1.strip().split("\n") if line.strip()] *)
SectionLines(group1) ==
    LET kept == NonBlank(Split(Strip(group1)))
    IN  [i \in 1..Len(kept) |-> Strip(StripBullet(kept[i]))]

(* lines, with the fallback to the placeholder left out *)
LinesOnly(lines, section) == lines

(* lines if lines else [placeholder] *)
LinesOrNoData(lines, section) ==
    IF lines # <<>> THEN lines ELSE <<NoData(section)>>

(* the body of the for loop for one section *)
ParseSection(text, section) ==
    LET m == SearchSection(text, section)
    IN  IF m # <<>>
        THEN LinesOrNoData(SectionLines(m[1]), section)
        ELSE <<NoData(section)>>

(* the for loop over sections.keys(): every key is assigned once *)
ParseSections(text) == [s \in SECTION_NAMES |-> ParseSection(text, s)]

----------------------------------------------------------------------------
(* find_latest_log *)

(* the printable ASCII code points, 32 (" ") to 126 ("~"), in code point   *)
(* order (the grave accent, 96, by its name)                               *)
Ascii ==
  <<" ", "!", "\"", "#", "$", "%", "&", "'", "(", ")", "*", "+", ",", "-", ".", "/", "0",
    "1", "2", "3", "4", "5", "6", "7", "8", "9", ":", ";", "<", "=", ">", "?", "@", "A", "B",
    "C", "D", "E", "F", "G", "H", "I", "J", "K", "L", "M", "N", "O", "P", "Q", "R", "S", "T",
    "U", "V", "W", "X", "Y", "Z", "[", "\\", "]", "^", "_", "U+0060", "a", "b", "c", "d", "e",
    "f", "g", "h", "i", "j", "k", "l", "m", "n", "o", "p", "q", "r", "s", "t", "u", "v", "w",
    "x", "y", "z", "{", "|", "}", "~">>

(* ord(c) for the printable ASCII code points, of which the file names of  *)
(* the directory are made                                                  *)
Ord(c) == 31 + (CHOOSE i \in 1..Len(Ascii) : Ascii[i] = c)

(* a < b on str: by the first differing code point, a proper prefix first *)
StrLess(a, b) ==
    LET n == IF Len(a) <= Len(b) THEN Len(a) ELSE Len(b)
        d == Least({i \in 1..n : a[i] # b[i]})
    IN  IF d = 0 THEN Len(a) < Len(b) ELSE Ord(a[d]) < Ord(b[d])

QA_Log_ == <<"Q", "A", "_", "L", "o", "g", "_">>
DotMd   == <<".", "m", "d">>

(* fnmatch of a directory entry against "QA_Log_*.md" *)
GlobMatch(name) ==
    /\ Len(name) >= Len(QA_Log_) + Len(DotMd)
    /\ StartsWith(name, QA_Log_)
    /\ EndsWith(name, DotMd)

(* the orders in which glob.glob may list the set S of matching names *)
Listings(S) ==
    {p \in [1..Cardinality(S) -> S] : \A i, j \in DOMAIN p : i # j => p[i] # p[j]}

(* insertion of x into a list kept in descending order *)
RECURSIVE InsertDesc(_, _)
InsertDesc(x, sorted) ==
    IF sorted = <<>> THEN <<x>>
    ELSE IF StrLess(Head(sorted), x) THEN <<x>> \o sorted
    ELSE <<Head(sorted)>> \o InsertDesc(x, Tail(sorted))

(* insertion of x into a list kept in ascending order *)
RECURSIVE InsertAsc(_, _)
InsertAsc(x, sorted) ==
    IF sorted = <<>> THEN <<x>>
    ELSE IF StrLess(x, Head(sorted)) THEN <<x>> \o sorted
    ELSE <<Head(sorted)>> \o InsertAsc(x, Tail(sorted))

(* files.sort(): the sort with reverse=True forgotten *)
RECURSIVE SortForward(_)
SortForward(l) ==
    IF l = <<>> THEN <<>> ELSE InsertAsc(Head(l), SortForward(Tail(l)))

(* files.sort(reverse=True) *)
RECURSIVE SortReverse(_)
SortReverse(l) ==
    IF l = <<>> THEN <<>> ELSE InsertDesc(Head(l), SortReverse(Tail(l)))

(* lines 8-11: None for an empty list, else the first of the sorted list *)
FindLatestResult(l) == IF l = <<>> THEN None ELSE SortReverse(l)[1]

----------------------------------------------------------------------------
(* extract_date_from_filename *)

(* \d of a str pattern: the ASCII digits and every other Unicode decimal  *)
(* digit, of which U+0662 (ARABIC-INDIC DIGIT TWO) stands for the rest.    *)
IsDigit(c) == c \in {"0", "1", "2", "3", "4", "5", "6", "7", "8", "9", "U+0662"}

(* (\d{4}-\d{2}-\d{2}) matched at index i *)
DateGroupAt(s, i) ==
    /\ i >= 1
    /\ i + 9 <= Len(s)
    /\ \A k \in {0, 1, 2, 3, 5, 6, 8, 9} : IsDigit(s[i + k])
    /\ s[i + 4] = "-"
    /\ s[i + 7] = "-"

(* r"QA_Log_(\d{4}-\d{2}-\d{2})\.md" matched at index i *)
DatePatternAt(s, i) ==
    /\ StartsWithAt(s, i, QA_Log_)
    /\ DateGroupAt(s, i + Len(QA_Log_))
    /\ StartsWithAt(s, i + Len(QA_Log_) + 10, DotMd)

DigitChars == <<"0", "1", "2", "3", "4", "5", "6", "7", "8", "9">>

(* a number as decimal digits, zero-padded to the given width *)
RECURSIVE Decimal(_, _)
Decimal(n, width) ==
    IF width <= 1 /\ n < 10 THEN <<DigitChars[n + 1]>>
    ELSE Decimal(n \div 10, width - 1) \o <<DigitChars[(n % 10) + 1]>>

(* datetime.today().strftime('%Y-%m-%d') *)
Strftime(d) == Decimal(d.year, 4) \o <<"-">> \o Decimal(d.month, 2) \o <<"-">> \o Decimal(d.day, 2)

(* re.fullmatch in place of re.search: the whole file name must match *)
ExtractDateAnchored(filename, now) ==
    IF DatePatternAt(filename, 1) /\ Len(filename) = Len(QA_Log_) + 10 + Len(DotMd)
    THEN SubSeq(filename, 1 + Len(QA_Log_), Len(QA_Log_) + 10)
    ELSE Strftime(now)

(* re.search: the leftmost match anywhere in the file name *)
ExtractDateFromFilename(filename, now) ==
    LET at == Least({i \in 1..Len(filename) : DatePatternAt(filename, i)})
    IN  IF at # 0
        THEN SubSeq(filename, at + Len(QA_Log_), at + Len(QA_Log_) + 9)
        ELSE Strftime(now)

----------------------------------------------------------------------------
(* generate_report *)

(* list_block: "\n".join(f"- {item}" for item in items) *)
ListBlock(items) == Join(<<NL>>, [i \in 1..Len(items) |-> <<"-", " ">> \o items[i]])

(* the key takeaways with the fixes left out *)
KeyTakeawaysNoFixes(secs) == secs[TasksDone] \o secs[Observations]

KeyTakeaways(secs) == secs[TasksDone] \o secs[FixesVerified] \o secs[Observations]

ProgressSummary(secs) == secs[FixesVerified] \o secs[Observations]

TitleHead       == <<"#", "#", "#", " ", "U+1F4E3", " ", "P", "r", "o", "j", "e", "c", "t", " ", "U", "p", "d", "a", "t", "e", ":", " ">>
KeyTakeawaysHdr == <<"#", "#", "#", "#", " ", "U+1F511", " ", "K", "e", "y", " ", "T", "a", "k", "e", "a", "w", "a", "y", "s">>
BugsFoundHdr    == <<"#", "#", "#", "#", " ", "U+1F41B", " ", "B", "u", "g", "s", " ", "F", "o", "u", "n", "d">>
ProgressHdr     == <<"#", "#", "#", "#", " ", "U+1F4CA", " ", "P", "r", "o", "g", "r", "e", "s", "s", " ", "S", "u", "m", "m", "a", "r", "y">>
NextStepsHdr    == <<"#", "#", "#", "#", " ", "U+1F501", " ", "N", "e", "x", "t", " ", "S", "t", "e", "p", "s">>

(* the f-string template of lines 52-65 *)
GenerateReport(secs, d) ==
    TitleHead \o d \o <<NL, NL>>
    \o KeyTakeawaysHdr \o <<NL>> \o ListBlock(KeyTakeaways(secs)) \o <<NL, NL>>
    \o BugsFoundHdr \o <<NL>> \o ListBlock(secs[BugsFound]) \o <<NL, NL>>
    \o ProgressHdr \o <<NL>> \o ListBlock(ProgressSummary(secs)) \o <<NL, NL>>
    \o NextStepsHdr \o <<NL>> \o ListBlock(secs[NextSteps]) \o <<NL>>

----------------------------------------------------------------------------
(* main *)

NoLogMessage ==
  <<"U+274C", " ", "N", "o", " ", "Q", "A", "_", "L", "o", "g", "_", "*", ".", "m", "d", " ",
    "f", "i", "l", "e", " ", "f", "o", "u", "n", "d", " ", "i", "n", " ", "t", "h", "i", "s",
    " ", "d", "i", "r", "e", "c", "t", "o", "r", "y", ".">>

(* log_file == "": a test that lets None through *)
NotFoundEmptyOnly(f) == f = <<>>

(* "not log_file": None and the empty str are falsy *)
NotFound(f) == f = None \/ f = <<>>

(* open(file_path, "r", encoding="utf-8").read(): text mode translates     *)
(* "\r\n" and a lone "\r" to "\n"                                          *)
RECURSIVE UniversalNewlines(_)
UniversalNewlines(data) ==
    IF data = <<>> THEN <<>>
    ELSE IF Head(data) = "\r"
         THEN <<NL>> \o UniversalNewlines(
                  IF Len(data) >= 2 /\ data[2] = NL
                  THEN SubSeq(data, 3, Len(data)) ELSE Tail(data))
         ELSE <<Head(data)>> \o UniversalNewlines(Tail(data))

----------------------------------------------------------------------------
(* The environment: the current directory and the system clock *)

(* the number of entries of the current directory *)
MaxFiles == 3

Name_0101  == <<"Q", "A", "_", "L", "o", "g", "_", "2", "0", "2", "4", "-", "0", "1", "-", "0", "1", ".", "m", "d">>
Name_0215  == <<"Q", "A", "_", "L", "o", "g", "_", "2", "0", "2", "4", "-", "0", "2", "-", "1", "5", ".", "m", "d">>
Name_0215b == <<"Q", "A", "_", "L", "o", "g", "_", "2", "0", "2", "4", "-", "0", "2", "-", "1", "5", "b", ".", "m", "d">>
Name_9     == <<"Q", "A", "_", "L", "o", "g", "_", "9", ".", "m", "d">>
Name_10    == <<"Q", "A", "_", "L", "o", "g", "_", "1", "0", ".", "m", "d">>
Name_Notes == <<"n", "o", "t", "e", "s", ".", "t", "x", "t">>

NamePool == {Name_0101, Name_0215, Name_0215b, Name_9, Name_10, Name_Notes}

(* Example 3 of the log format, written with CRLF line ends *)
DocExample ==
  <<"#", "#", "#", " ", "U+1F41B", " ", "B", "u", "g", "s", " ", "F", "o", "u", "n", "d",
    "\r", "\n", "-", " ", "C", "r", "a", "s", "h", " ", "o", "n", " ", "s", "a", "v", "e",
    "\r", "\n", "-", " ", "T", "y", "p", "o", " ", "i", "n", " ", "U", "I", "\r", "\n", "#",
    "#", "#", " ", "U+1F501", " ", "N", "e", "x", "t", " ", "S", "t", "e", "p", "s", "\r",
    "\n", "-", " ", "F", "i", "x", " ", "c", "r", "a", "s", "h">>

(* a log with one section only, its heading directly followed by another *)
DocShort ==
  <<"#", "#", "#", " ", "U+2705", " ", "T", "a", "s", "k", "s", " ", "D", "o", "n", "e",
    "\n", "#", "#", "#", " ", "U+1F4C8", " ", "O", "b", "s", "e", "r", "v", "a", "t", "i",
    "o", "n", "s", "\n", "-", " ", "o", "k", "\n">>

(* a directory entry: a readable UTF-8 file with its text, a directory, a  *)
(* file that cannot be opened, a file whose bytes are not UTF-8            *)
Entries ==
    {[kind |-> "file", data |-> DocExample], [kind |-> "file", data |-> DocShort],
     [kind |-> "dir", data |-> <<>>], [kind |-> "unopenable", data |-> <<>>],
     [kind |-> "undecodable", data |-> <<>>]}

Directories ==
    UNION {[S -> Entries] : S \in {T \in SUBSET NamePool : Cardinality(T) <= MaxFiles}}

Clock == {[year |-> 2026, month |-> 11, day |-> 2], [year |-> 2024, month |-> 3, day |-> 1]}

(* the names of the current directory that glob.glob("QA_Log_*.md") lists *)
Matching == {n \in DOMAIN fs : GlobMatch(n)}

----------------------------------------------------------------------------
(* The run of main() *)

Init ==
    /\ pc = "main"
    /\ fs \in Directories
    /\ today \in Clock
    /\ files = <<>>
    /\ log_file = None
    /\ content = None
    /\ sections = EmptySections
    /\ date = None
    /\ report = None
    /\ stdout = <<>>

(* find_latest_log, line 7: glob lists the matching names in any order *)
Glob ==
    /\ pc = "main"
    /\ \E l \in Listings(Matching) : files' = l
    /\ pc' = "find_latest_sort"
    /\ UNCHANGED <<fs, today, log_file, content, sections, date, report, stdout>>

(* find_latest_log, lines 8-11, and the assignment of line 68 *)
FindLatestLog ==
    /\ pc = "find_latest_sort"
    /\ files' = IF files = <<>> THEN files ELSE SortReverse(files)
    /\ log_file' = FindLatestResult(files)
    /\ pc' = "main_check"
    /\ UNCHANGED <<fs, today, content, sections, date, report, stdout>>

(* main, lines 69-71 *)
MainNoLog ==
    /\ pc = "main_check"
    /\ NotFound(log_file)
    /\ stdout' = Append(stdout, NoLogMessage)
    /\ pc' = "returned"
    /\ UNCHANGED <<fs, today, files, log_file, content, sections, date, report>>

(* parse_log, lines 22-23: open and read; an exception of open or read is  *)
(* caught nowhere and ends the run                                         *)
ParseLogRead ==
    /\ pc = "main_check"
    /\ ~NotFound(log_file)
    /\ IF log_file \in DOMAIN fs /\ fs[log_file].kind = "file"
       THEN /\ content' = UniversalNewlines(fs[log_file].data)
            /\ pc' = "parse_sections"
       ELSE /\ content' = content
            /\ pc' = "raised"
    /\ UNCHANGED <<fs, today, files, log_file, sections, date, report, stdout>>

(* parse_log, lines 25-34 *)
ParseLogSections ==
    /\ pc = "parse_sections"
    /\ sections' = ParseSections(content)
    /\ pc' = "extract_date"
    /\ UNCHANGED <<fs, today, files, log_file, content, date, report, stdout>>

(* main, line 74 *)
ExtractDate ==
    /\ pc = "extract_date"
    /\ date' = ExtractDateFromFilename(log_file, today)
    /\ pc' = "generate_report"
    /\ UNCHANGED <<fs, today, files, log_file, content, sections, report, stdout>>

(* main, line 75 *)
Render ==
    /\ pc = "generate_report"
    /\ report' = GenerateReport(sections, date)
    /\ pc' = "print_report"
    /\ UNCHANGED <<fs, today, files, log_file, content, sections, date, stdout>>

(* main, line 77 *)
PrintReport ==
    /\ pc = "print_report"
    /\ stdout' = Append(stdout, report)
    /\ pc' = "returned"
    /\ UNCHANGED <<fs, today, files, log_file, content, sections, date, report>>

Next ==
    \/ Glob
    \/ FindLatestLog
    \/ MainNoLog
    \/ ParseLogRead
    \/ ParseLogSections
    \/ ExtractDate
    \/ Render
    \/ PrintReport

Spec == Init /\ [][Next]_vars

----------------------------------------------------------------------------
(* Properties of the run of main(), checked under Spec *)

(* a <= b in lexicographic order of code points, defined on its own *)
RECURSIVE LexLE(_, _)
LexLE(a, b) ==
    IF a = <<>> THEN TRUE
    ELSE IF b = <<>> THEN FALSE
    ELSE IF Head(a) = Head(b) THEN LexLE(Tail(a), Tail(b))
    ELSE Ord(Head(a)) < Ord(Head(b))

Located == pc \notin {"main", "find_latest_sort"}

Ended == pc \in {"returned", "raised"}

(* C3: once find_latest_log has returned, its result is the                *)
(* lexicographically greatest of the names matching QA_Log_*.md (the whole *)
(* file name compared code point by code point), and it is None exactly    *)
(* when no name matches.                                                   *)
C3_LatestIsLexGreatest ==
    Located =>
        /\ (log_file = None) <=> (Matching = {})
        /\ Matching # {} =>
              /\ log_file \in Matching
              /\ \A f \in Matching : LexLE(f, log_file)

(* C3 witness: QA_Log_9.md is returned although QA_Log_10.md is listed     *)
(* first: the order is that of the strings, not of numbers or dates.       *)
C3_Witness ==
    /\ pc = "main_check"
    /\ Matching = {Name_9, Name_10}
    /\ log_file = Name_9

(* C6: every run in which find_latest_log returned a file name ends by     *)
(* printing a report, whatever the located entry is.                       *)
C6_LocatedRunsEndWithReport ==
    (Ended /\ log_file # None) =>
        /\ pc = "returned"
        /\ report # None
        /\ stdout = <<report>>

(* C7: when no name matches QA_Log_*.md the run prints the fixed message   *)
(* and returns, having read no file, extracted no date and made no report; *)
(* and a report is made or printed only when a file name was located.      *)
C7_NoLogOnlyMessage ==
    /\ (Located /\ Matching = {}) =>
          /\ pc \in {"main_check", "returned"}
          /\ content = None
          /\ sections = EmptySections
          /\ date = None
          /\ report = None
          /\ stdout = IF pc = "returned" THEN <<NoLogMessage>> ELSE <<>>
    /\ (report # None \/ \E i \in DOMAIN stdout : stdout[i] # NoLogMessage) =>
          log_file \in Matching

(* C7 witness: a directory with entries, none matching, and the run over *)
C7_Witness ==
    /\ pc = "returned"
    /\ DOMAIN fs = {Name_Notes}
    /\ stdout = <<NoLogMessage>>

----------------------------------------------------------------------------
(* parse_log on its own: the state after lines 22-23 have read a text *)

(* the number of lines of a text *)
MaxLines == 4

Heading(section) == <<"#", "#", "#", " ">> \o section

(* the lines texts are made of: two of the five headings, a heading of     *)
(* another level holding a label, another heading, bullets, a bare bullet  *)
(* marker, a bullet with markers at both ends, an empty line               *)
LinePool ==
    {Heading(TasksDone), Heading(BugsFound), <<"#">> \o Heading(TasksDone),
     <<"#", "#", "#", " ", "N", "o", "t", "e", "s">>,
     <<"-", " ", "a">>, <<"-", " ">>, <<"-", "-", " ", "b", " ", "-">>, <<>>}

LineSeqs == UNION {[1..n -> LinePool] : n \in 0..MaxLines}

(* every text of at most MaxLines lines, with and without a final newline *)
Texts == {Join(<<NL>>, ls) \o tail : ls \in LineSeqs, tail \in {<<>>, <<NL>>}}

LogName == Name_0215

InitParse ==
    /\ pc = "parse_sections"
    /\ content \in Texts
    /\ fs = (LogName :> [kind |-> "file", data |-> content])
    /\ today \in {t \in Clock : t.year = 2026}
    /\ files = <<LogName>>
    /\ log_file = LogName
    /\ sections = EmptySections
    /\ date = None
    /\ report = None
    /\ stdout = <<>>

NextParse == ParseLogSections

SpecParse == InitParse /\ [][NextParse]_vars

Parsed == pc \notin {"main", "find_latest_sort", "main_check", "parse_sections", "raised"}
          /\ log_file # None

(* the lines of a text *)
LinesOf(text) == Split(text)

(* the index of the first line that is exactly "### <label>", 0 if none *)
HeadingLine(text, section) ==
    Least({i \in 1..Len(LinesOf(text)) : LinesOf(text)[i] = Heading(section)})

(* the index of the first line after line h that begins with "###", or    *)
(* one past the last line                                                 *)
NextHeadingLine(text, h) ==
    LET n == Len(LinesOf(text))
    IN  Least({i \in (h + 1)..(n + 1) :
                  i = n + 1 \/ StartsWith(LinesOf(text)[i], <<"#", "#", "#">>)})

(* a line stripped of whitespace and of the bullet characters *)
ItemOf(line) == Strip(StripBullet(Strip(line)))

(* the non-empty items of the lines under the heading line h *)
ItemsUnder(text, h) ==
    {ItemOf(LinesOf(text)[i]) : i \in (h + 1)..(NextHeadingLine(text, h) - 1)} \ {<<>>}

(* C1: a label whose heading line is absent, or present with no non-empty  *)
(* item under it, is given the one-element placeholder sequence.           *)
C1_PlaceholderWhenNoItems ==
    Parsed =>
        \A s \in SECTION_NAMES :
            LET h == HeadingLine(content, s)
            IN  (h = 0 \/ ItemsUnder(content, h) = {}) => sections[s] = <<NoData(s)>>

(* C2: the result of parse_log has exactly the five section keys and every *)
(* value is a non-empty sequence.                                          *)
C2_FiveNonEmptySections ==
    Parsed =>
        /\ DOMAIN sections = {TasksDone, BugsFound, FixesVerified, Observations, NextSteps}
        /\ Cardinality(DOMAIN sections) = 5
        /\ \A s \in DOMAIN sections : Len(sections[s]) >= 1

(* C2 witness: a heading with only an empty line under it, and a heading   *)
(* with an item under it, have been parsed                                 *)
C2_Witness ==
    /\ Parsed
    /\ content = Heading(TasksDone) \o <<NL, NL>> \o Heading(BugsFound) \o <<NL>> \o <<"-", " ", "a">>
    /\ sections[TasksDone] = <<NoData(TasksDone)>>
    /\ sections[BugsFound] = <<<<"a">>>>

(* the index of the first line that ends with "### <label>" (the line the  *)
(* search of parse_log takes for the heading), 0 if none                   *)
FoundHeadingLine(text, section) ==
    Least({i \in 1..Len(LinesOf(text)) : EndsWith(LinesOf(text)[i], Heading(section))})

(* the items, empty ones included, of the lines under the heading line h *)
AllItemsUnder(text, h) ==
    {ItemOf(LinesOf(text)[i]) : i \in (h + 1)..(NextHeadingLine(text, h) - 1)}

(* C9: every item of a section comes from a line strictly between the      *)
(* label's heading line and the next line that begins with "###".          *)
C9_ItemsFromOwnBlock ==
    Parsed =>
        \A s \in SECTION_NAMES :
            sections[s] # <<NoData(s)>> =>
                LET h == FoundHeadingLine(content, s)
                IN  /\ h # 0
                    /\ \A i \in DOMAIN sections[s] :
                           sections[s][i] \in AllItemsUnder(content, h)

(* C10: no section holds the empty string as an item. *)
C10_NoEmptyItem ==
    Parsed => \A s \in SECTION_NAMES : \A i \in DOMAIN sections[s] : sections[s][i] # <<>>

----------------------------------------------------------------------------
(* extract_date_from_filename on its own: the state before line 74 *)

DatePrefixes == {<<>>, <<"x">>, QA_Log_, <<"x", "Q", "A", "_", "L", "o", "g", "_", "2", "0", "2", "3", "-", "0", "1", "-", "9", "9", ".", "m", "d", "_">>}
DateYears    == {<<"2", "0", "2", "4">>, <<"2", "0", "2">>, <<"2", "0", "a", "4">>, <<"U+0662", "0", "2", "4">>}
DateSeps     == {<<"-">>, <<"_">>}
DateMonths   == {<<"0", "3">>, <<"3">>}
DateDays     == {<<"0", "1">>, <<"1">>, <<"9", "9">>}
DateExts     == {DotMd, <<"x", "m", "d">>, <<".", "t", "x", "t">>}
DateSuffixes == {<<>>, DotMd, <<".", "b", "a", "k">>}

(* file names built around QA_Log_<year>-<month>-<day>.md, with parts that *)
(* break the form and with text before and after it                        *)
DateFileNames ==
    {p \o QA_Log_ \o y \o s \o m \o <<"-">> \o d \o e \o x :
        p \in DatePrefixes, y \in DateYears, s \in DateSeps, m \in DateMonths,
        d \in DateDays, e \in DateExts, x \in DateSuffixes}
    \cup {Name_Notes, Name_9}

InitDate ==
    /\ pc = "extract_date"
    /\ log_file \in DateFileNames
    /\ today \in Clock
    /\ fs = (log_file :> [kind |-> "file", data |-> <<>>])
    /\ files = <<log_file>>
    /\ content = <<>>
    /\ sections = ParseSections(<<>>)
    /\ date = None
    /\ report = None
    /\ stdout = <<>>

NextDate == ExtractDate

SpecDate == InitDate /\ [][NextDate]_vars

Dated == pc \in {"generate_report", "print_report"} \/ (pc = "returned" /\ date # None)

(* the file name is exactly QA_Log_<4 digits>-<2 digits>-<2 digits>.md *)
HasExactDateForm(f) == Len(f) = Len(QA_Log_) + 10 + Len(DotMd) /\ DatePatternAt(f, 1)

(* the places of a file name where the form occurs *)
DateFormPlaces(f) == {i \in 1..Len(f) : DatePatternAt(f, i)}

(* the clock's date written YYYY-MM-DD *)
IsoDate(d) ==
    LET Digit(n, unit) == DigitChars[((n \div unit) % 10) + 1]
    IN  <<Digit(d.year, 1000), Digit(d.year, 100), Digit(d.year, 10), Digit(d.year, 1), "-",
          Digit(d.month, 10), Digit(d.month, 1), "-", Digit(d.day, 10), Digit(d.day, 1)>>

(* C4 as stated: the date is the captured text when the file name has      *)
(* exactly the form QA_Log_<4 digits>-<2 digits>-<2 digits>.md, and the    *)
(* current date for every file name that has not.                          *)
C4_ExactFormElseToday ==
    Dated =>
        IF HasExactDateForm(log_file)
        THEN date = SubSeq(log_file, Len(QA_Log_) + 1, Len(QA_Log_) + 10)
        ELSE date = IsoDate(today)

(* C4 as amended: the date is the text captured at the leftmost place of   *)
(* the file name where QA_Log_<4 digits>-<2 digits>-<2 digits>.md occurs   *)
(* (with no check that it is a calendar date), and the current date        *)
(* exactly when the form occurs nowhere in the file name.                  *)
C4_LeftmostFormElseToday ==
    Dated =>
        IF DateFormPlaces(log_file) # {}
        THEN \E i \in DateFormPlaces(log_file) :
                /\ \A j \in DateFormPlaces(log_file) : i <= j
                /\ date = SubSeq(log_file, i + Len(QA_Log_), i + Len(QA_Log_) + 9)
        ELSE date = IsoDate(today)

(* C4 witness: a name with text before and after the form, two places     *)
(* where it occurs, and the date of the first, no calendar date, returned  *)
C4_Witness ==
    /\ Dated
    /\ ~HasExactDateForm(log_file)
    /\ Cardinality(DateFormPlaces(log_file)) = 2
    /\ log_file[1] = "x"
    /\ date = <<"2", "0", "2", "3", "-", "0", "1", "-", "9", "9">>

----------------------------------------------------------------------------
(* Logs written section by section: parse_log and generate_report on them *)

(* the number of bullet lines of a section *)
MaxItems == 2

(* the k-th item of a section: the first letter of its label and k *)
ItemNo(section, k) == <<section[3]>> \o Decimal(k, 1)

Bullet(item) == <<"-", " ">> \o item

(* the lines of a log holding, in the given order, each section that has   *)
(* items: its heading line and one bullet line per item                    *)
RECURSIVE LogLines(_, _)
LogLines(order, items) ==
    IF order = <<>> THEN <<>>
    ELSE LET s == Head(order)
         IN  (IF items[s] = <<>> THEN <<>>
              ELSE <<Heading(s)>> \o [i \in 1..Len(items[s]) |-> Bullet(items[s][i])])
             \o LogLines(Tail(order), items)

LogText(order, items) == Join(<<NL>>, LogLines(order, items)) \o <<NL>>

SectionOrder == <<TasksDone, BugsFound, FixesVerified, Observations, NextSteps>>

(* no item (the section is left out of the log), the first n items, or    *)
(* one empty item (a bare bullet marker)                                   *)
ItemChoices(section) ==
    {[i \in 1..n |-> ItemNo(section, i)] : n \in 0..MaxItems} \cup {<<<<>>>>}

LogItems == {f \in [SECTION_NAMES -> UNION {ItemChoices(s) : s \in SECTION_NAMES}] :
                \A s \in SECTION_NAMES : f[s] \in ItemChoices(s)}

InitRender ==
    /\ pc = "parse_sections"
    /\ \E items \in LogItems : content = LogText(SectionOrder, items)
    /\ log_file \in {LogName, Name_9}
    /\ today \in {t \in Clock : t.year = 2026}
    /\ fs = (log_file :> [kind |-> "file", data |-> content])
    /\ files = <<log_file>>
    /\ sections = EmptySections
    /\ date = None
    /\ report = None
    /\ stdout = <<>>

NextRender ==
    \/ ParseLogSections
    \/ ExtractDate
    \/ Render
    \/ PrintReport

SpecRender == InitRender /\ [][NextRender]_vars

Rendered == report # None

(* one line "- <item>" per item, in the order of the items *)
BulletLines(items) == [i \in 1..Len(items) |-> <<"-", " ">> \o items[i]]

(* C5: the report is the title line and four blocks in the order Key       *)
(* Takeaways, Bugs Found, Progress Summary, Next Steps; the bullets of Key *)
(* Takeaways are Tasks Done, Fixes Verified and Observations in that       *)
(* order, those of Progress Summary Fixes Verified and Observations, those *)
(* of Bugs Found and Next Steps the section as it is; each block has one   *)
(* line "- <item>" per item, placeholders included, in the items' order.   *)
C5_ReportBlocks ==
    Rendered =>
        Split(report) =
            <<TitleHead \o date, <<>>, KeyTakeawaysHdr>>
            \o BulletLines(sections[TasksDone] \o sections[FixesVerified]
                           \o sections[Observations])
            \o <<<<>>, BugsFoundHdr>> \o BulletLines(sections[BugsFound])
            \o <<<<>>, ProgressHdr>>
            \o BulletLines(sections[FixesVerified] \o sections[Observations])
            \o <<<<>>, NextStepsHdr>> \o BulletLines(sections[NextSteps])
            \o <<<<>>>>

(* C5 witness: a report of a log with two items of Tasks Done and of       *)
(* Observations, one of Fixes Verified, and placeholders for the rest      *)
C5_Witness ==
    /\ pc = "returned"
    /\ stdout = <<report>>
    /\ Len(sections[TasksDone]) = 2
    /\ Len(sections[Observations]) = 2
    /\ sections[FixesVerified] = <<ItemNo(FixesVerified, 1)>>
    /\ sections[BugsFound] = <<NoData(BugsFound)>>
    /\ sections[NextSteps] = <<NoData(NextSteps)>>

----------------------------------------------------------------------------
(* Round trip: logs with all five sections, in every order *)

(* the orders of the five sections *)
SectionOrders ==
    {p \in [1..5 -> SECTION_NAMES] : \A i, j \in 1..5 : i # j => p[i] # p[j]}

(* an item that mentions the heading of a section at its end *)
SeeHeading(section) == <<"s", "e", "e", " ">> \o Heading(section)

(* one item, or one item and a mention of the Tasks Done heading *)
RoundTripChoices(section) ==
    {<<ItemNo(section, 1)>>, <<ItemNo(section, 1), SeeHeading(TasksDone)>>}

RoundTripItems ==
    {f \in [SECTION_NAMES -> UNION {RoundTripChoices(s) : s \in SECTION_NAMES}] :
        \A s \in SECTION_NAMES : f[s] \in RoundTripChoices(s)}

InitRoundTrip ==
    /\ pc = "parse_sections"
    /\ \E order \in SectionOrders, items \in RoundTripItems :
          content = LogText(order, items)
    /\ log_file = LogName
    /\ today \in {t \in Clock : t.year = 2026}
    /\ fs = (log_file :> [kind |-> "file", data |-> content])
    /\ files = <<log_file>>
    /\ sections = EmptySections
    /\ date = None
    /\ report = None
    /\ stdout = <<>>

NextRoundTrip == ParseLogSections

SpecRoundTrip == InitRoundTrip /\ [][NextRoundTrip]_vars

IsBulletLine(line) == StartsWith(line, <<"-", " ">>)

(* the items of the bullet lines among lines[lo..hi], in order *)
RECURSIVE BulletItems(_, _, _)
BulletItems(lines, lo, hi) ==
    IF lo > hi THEN <<>>
    ELSE (IF IsBulletLine(lines[lo]) THEN <<ItemOf(lines[lo])>> ELSE <<>>)
         \o BulletItems(lines, lo + 1, hi)

(* the text holds the heading line of every section, each directly        *)
(* followed by a bullet line                                               *)
HasAllSections(text) ==
    \A s \in SECTION_NAMES :
        LET h == HeadingLine(text, s)
        IN  /\ h # 0
            /\ h < Len(LinesOf(text))
            /\ IsBulletLine(LinesOf(text)[h + 1])

(* C8: parse_log of a log with all five headings, each followed by bullet  *)
(* lines, returns for each label the items of its own bullet lines, in the *)
(* order of the log, whatever the order of the sections.                   *)
C8_RoundTrip ==
    (Parsed /\ HasAllSections(content)) =>
        \A s \in SECTION_NAMES :
            LET h == HeadingLine(content, s)
            IN  sections[s] =
                    BulletItems(LinesOf(content), h + 1, NextHeadingLine(content, h) - 1)

====
